---- MODULE Spec2Model ----
(***************************************************************************)
(* Conway's Game of Life on a finite, non-wrapping grid (src/main.rs):     *)
(* the Universe type (new, get_index, get_cell_state, live_neighbors,      *)
(* tick), the draw pass `update`, and the event-loop closure of `main`.    *)
(*                                                                         *)
(* Numbers.  The program's coordinates and dimensions are u32.  The grids  *)
(* here are small, so u32 arithmetic and integer arithmetic agree unless a *)
(* value leaves the naturals; that can happen in two places, and both are  *)
(* kept visible.  (1) self.height - 1 or self.width - 1 with operand 0.    *)
(* (2) (row as i32 + drow) as u32 of a negative sum, a value >= 2^32 - 1.  *)
(* The model keeps the negative integer.  get_index of it, computed modulo *)
(* 2^32 as a release build does, is the integer index when that is not     *)
(* negative and a value beyond every Vec otherwise, which is what          *)
(* IndexPanics tests; a debug build panics on the overflowing arithmetic.  *)
(* The field `overflow` of the probe records (1) and (2), and the actions  *)
(* take either build's outcome.                                            *)
(***************************************************************************)
EXTENDS Integers, Sequences, FiniteSets

\* ---------------------------------------------------------------- bounds
\* Largest width and height of a grid of the Universe specification.
MaxDim == 5
\* Grids of at most FullCells cells start in every configuration; a larger
\* grid starts with a 2x2 block of Alive cells, anywhere, and at most one
\* other Alive cell.
FullCells == 9
\* Largest width and height (in cells) the host window takes.
HostMaxDim == 2
\* Largest number of cells of a grid the host builds.
HostMaxCells == 4

\* ------------------------------------------------------------- constants
SQUARE_SIZE == 50
Dead == 0
Alive == 1

\* The bytes rand::random::<u8>() is sampled from: one even, one odd.
RandomBytes == {0, 255}

VARIABLES
    universe,      \* the Universe: [width, height, cells, dirty]
    inner_size,    \* the window's inner size in pixels: [width, height]
    control_flow,  \* "Poll" or "Exit", as left by the last closure call
    event,         \* the event the last closure call handled ("Init" before any)
    ticked,        \* whether the last step called universe.tick()
    pre,           \* the Universe as it was at the time gate of the last step
    probe,         \* what the last tick dereferenced: [coords, indices, subs, overflow]
    drawn,         \* whether the last closure call ran the draw pass (update)
    reads,         \* the get_cell_state calls of the last draw pass, in order
    shown,         \* the grid read by the most recent draw pass, or NoGrid
    panicked       \* the process aborted (index out of bounds, overflow check)

vars == <<universe, inner_size, control_flow, event, ticked, pre, probe,
          drawn, reads, shown, panicked>>

NoGrid == [width |-> 0 - 1, height |-> 0 - 1, cells |-> <<>>]
NoProbe == [coords |-> {}, indices |-> {}, subs |-> FALSE, overflow |-> FALSE]

\* ------------------------------------------------------------- Universe

\* Variant of New that leaves dirty false (sensitivity of C9).
New_Clean(width, height, rnd) ==
    [width  |-> width,
     height |-> height,
     cells  |-> [i \in 1..(width * height) |->
                    IF rnd[i] % 2 = 1 THEN Alive ELSE Dead],
     dirty  |-> FALSE]

\* Variant of New that allocates one cell too few (sensitivity of C4).
New_Short(width, height, rnd) ==
    [width  |-> width,
     height |-> height,
     cells  |-> [i \in 1..(width * height - 1) |->
                    IF rnd[i] % 2 = 1 THEN Alive ELSE Dead],
     dirty  |-> TRUE]

\* Universe::new: width*height cells, each Alive iff its random byte is odd.
New(width, height, rnd) ==
    [width  |-> width,
     height |-> height,
     cells  |-> [i \in 1..(width * height) |->
                    IF rnd[i] % 2 = 1 THEN Alive ELSE Dead],
     dirty  |-> TRUE]

\* Universe::get_index (0-based).
get_index(u, row, column) == row * u.width + column

\* self.cells[idx]: the indexing panics when idx is not below the length.
IndexPanics(u, idx) == idx < 0 \/ idx >= Len(u.cells)
CellAt(u, idx) == IF IndexPanics(u, idx) THEN Dead ELSE u.cells[idx + 1]

\* The offsets in the order of the two nested loops of live_neighbors.
Offsets == << <<0 - 1, 0 - 1>>, <<0 - 1, 0>>, <<0 - 1, 1>>,
              <<0, 0 - 1>>,     <<0, 0>>,     <<0, 1>>,
              <<1, 0 - 1>>,     <<1, 0>>,     <<1, 1>> >>

\* Variant of Skip without the right-edge test (sensitivity of C2).
Skip_NoRightEdge(u, row, column, drow, dcol) ==
    \/ (drow = 0 /\ dcol = 0)
    \/ (drow = 0 - 1 /\ row = 0)
    \/ (drow = 1 /\ row = u.height - 1)
    \/ (dcol = 0 - 1 /\ column = 0)

\* Variant of Skip comparing row with height, not height - 1 (sensitivity of C5).
Skip_OffByOne(u, row, column, drow, dcol) ==
    \/ (drow = 0 /\ dcol = 0)
    \/ (drow = 0 - 1 /\ row = 0)
    \/ (drow = 1 /\ row = u.height)
    \/ (dcol = 0 - 1 /\ column = 0)
    \/ (dcol = 1 /\ column = u.width - 1)

\* The `continue` condition of live_neighbors.
Skip(u, row, column, drow, dcol) ==
    \/ (drow = 0 /\ dcol = 0)
    \/ (drow = 0 - 1 /\ row = 0)
    \/ (drow = 1 /\ row = u.height - 1)
    \/ (dcol = 0 - 1 /\ column = 0)
    \/ (dcol = 1 /\ column = u.width - 1)

\* Whether the condition, evaluated left to right with short-circuit,
\* computes self.height - 1, respectively self.width - 1, for this offset.
HeightSubEvaluated(u, row, column, drow, dcol) ==
    /\ ~(drow = 0 /\ dcol = 0)
    /\ ~(drow = 0 - 1 /\ row = 0)
    /\ drow = 1

WidthSubEvaluated(u, row, column, drow, dcol) ==
    /\ ~(drow = 0 /\ dcol = 0)
    /\ ~(drow = 0 - 1 /\ row = 0)
    /\ ~(drow = 1 /\ row = u.height - 1)
    /\ ~(dcol = 0 - 1 /\ column = 0)
    /\ dcol = 1

\* The coordinates live_neighbors passes to get_index, one per offset kept.
NeighborTargets(u, row, column) ==
    { <<row + Offsets[k][1], column + Offsets[k][2]>> :
        k \in { j \in 1..Len(Offsets) :
                  ~Skip(u, row, column, Offsets[j][1], Offsets[j][2]) } }

RECURSIVE CountFrom(_, _, _, _)
CountFrom(u, row, column, k) ==
    IF k > Len(Offsets) THEN 0
    ELSE LET drow == Offsets[k][1]
             dcol == Offsets[k][2]
         IN (IF Skip(u, row, column, drow, dcol) THEN 0
             ELSE CellAt(u, get_index(u, row + drow, column + dcol)))
            + CountFrom(u, row, column, k + 1)

\* Universe::live_neighbors.
live_neighbors(u, row, column) == CountFrom(u, row, column, 1)

\* live_neighbors panics: some kept offset indexes outside the cells.
NeighborsPanic(u, row, column) ==
    \E t \in NeighborTargets(u, row, column) :
        IndexPanics(u, get_index(u, t[1], t[2]))

\* Variant of NextCellState in which 3 neighbours kill (sensitivity of C6).
NextCellState_Survive2(cell, n) ==
    CASE cell = Alive /\ n < 2 -> Dead
      [] cell = Alive /\ n = 2 -> Alive
      [] cell = Alive /\ n > 2 -> Dead
      [] cell = Dead /\ n = 3 -> Alive
      [] OTHER -> cell

\* The match of tick.
NextCellState(cell, n) ==
    CASE cell = Alive /\ n < 2 -> Dead
      [] cell = Alive /\ (n = 2 \/ n = 3) -> Alive
      [] cell = Alive /\ n > 3 -> Dead
      [] cell = Dead /\ n = 3 -> Alive
      [] OTHER -> cell

\* Whether some offset makes the condition compute height - 1 or width - 1,
\* and whether some such subtraction has operand 0 (overflows).
SubsEvaluated(u, row, col) ==
    \E k \in 1..Len(Offsets) :
        \/ HeightSubEvaluated(u, row, col, Offsets[k][1], Offsets[k][2])
        \/ WidthSubEvaluated(u, row, col, Offsets[k][1], Offsets[k][2])

SubsOverflow(u, row, col) ==
    \/ /\ u.height = 0
       /\ \E k \in 1..Len(Offsets) :
            HeightSubEvaluated(u, row, col, Offsets[k][1], Offsets[k][2])
    \/ /\ u.width = 0
       /\ \E k \in 1..Len(Offsets) :
            WidthSubEvaluated(u, row, col, Offsets[k][1], Offsets[k][2])

\* What tick has dereferenced after one more body of its inner loop.
ProbeWith(u, pr, idx, targets, subs, overflow) ==
    [coords    |-> pr.coords \cup targets,
     indices   |-> pr.indices \cup {idx}
                   \cup { get_index(u, t[1], t[2]) : t \in targets },
     subs      |-> pr.subs \/ subs,
     overflow  |-> pr.overflow \/ overflow
                   \/ \E t \in targets : t[1] < 0 \/ t[2] < 0]

StepProbe(u, pr, row, col) ==
    ProbeWith(u, pr, get_index(u, row, col), NeighborTargets(u, row, col),
              SubsEvaluated(u, row, col), SubsOverflow(u, row, col))

\* Variant of Store that overwrites dirty for each cell (sensitivity of C3).
Store_Overwrite(acc, idx, next_cell_state, fault, pr) ==
    IF fault
    THEN [acc EXCEPT !.panicked = TRUE, !.probe = pr]
    ELSE [next     |-> [acc.next EXCEPT ![idx + 1] = next_cell_state],
          dirty    |-> (acc.next[idx + 1] # next_cell_state),
          panicked |-> FALSE,
          probe    |-> pr]

\* The end of one body of the inner loop of tick, on the accumulator
\* [next, dirty, panicked, probe]: the comparison with next[idx] and the
\* store into it.  A body that panics stores nothing.
Store(acc, idx, next_cell_state, fault, pr) ==
    IF fault
    THEN [acc EXCEPT !.panicked = TRUE, !.probe = pr]
    ELSE [next     |-> [acc.next EXCEPT ![idx + 1] = next_cell_state],
          dirty    |-> acc.dirty \/ (acc.next[idx + 1] # next_cell_state),
          panicked |-> FALSE,
          probe    |-> pr]

\* Variant of TickStep that reads the cells already written to next
\* (sensitivity of C1).
TickStep_InPlace(u, acc, row, col) ==
    IF acc.panicked THEN acc
    ELSE Store(acc, get_index(u, row, col),
               NextCellState(CellAt([u EXCEPT !.cells = acc.next], get_index(u, row, col)),
                             live_neighbors([u EXCEPT !.cells = acc.next], row, col)),
               IndexPanics(u, get_index(u, row, col)) \/ NeighborsPanic(u, row, col),
               StepProbe(u, acc.probe, row, col))

\* One body of the inner loop of tick: the cell and its neighbours are read
\* from self.cells, the successor is written into next.
TickStep(u, acc, row, col) ==
    IF acc.panicked THEN acc
    ELSE Store(acc, get_index(u, row, col),
               NextCellState(CellAt(u, get_index(u, row, col)),
                             live_neighbors(u, row, col)),
               IndexPanics(u, get_index(u, row, col)) \/ NeighborsPanic(u, row, col),
               StepProbe(u, acc.probe, row, col))

\* for col in 0..self.width
RECURSIVE TickCols(_, _, _, _)
TickCols(u, acc, row, col) ==
    IF col >= u.width THEN acc
    ELSE TickCols(u, TickStep(u, acc, row, col), row, col + 1)

\* for row in 0..self.height
RECURSIVE TickRows(_, _, _)
TickRows(u, acc, row) ==
    IF row >= u.height THEN acc
    ELSE TickRows(u, TickCols(u, acc, row, 0), row + 1)

\* The end of tick, from the loops' final accumulator: self.cells = next
\* (a panic leaves self.cells unassigned).  The result is the Universe tick
\* leaves, whether it panicked, and what it dereferenced.
TickResult(u, acc) ==
    [universe |-> [u EXCEPT !.dirty = acc.dirty,
                            !.cells = IF acc.panicked THEN u.cells ELSE acc.next],
     panicked |-> acc.panicked,
     probe    |-> acc.probe]

\* Variant of tick without self.dirty = false (sensitivity of C10).
tick_NoReset(u) ==
    TickResult(u, TickRows(u, [next |-> u.cells, dirty |-> u.dirty,
                               panicked |-> FALSE, probe |-> NoProbe], 0))

\* Universe::tick: self.dirty = false, next = self.cells.clone(), the loops.
tick(u) ==
    TickResult(u, TickRows(u, [next |-> u.cells, dirty |-> FALSE,
                               panicked |-> FALSE, probe |-> NoProbe], 0))

\* Universe::get_cell_state
get_cell_state(u, row, column) == CellAt(u, get_index(u, row, column))

\* Variant of UpdateCols that stops one column early (sensitivity of C7).
RECURSIVE UpdateCols_Short(_, _, _)
UpdateCols_Short(u, row, col) ==
    IF col >= u.width - 1 THEN <<>>
    ELSE <<[row |-> row, col |-> col, cell |-> get_cell_state(u, row, col)]>>
         \o UpdateCols_Short(u, row, col + 1)

\* The inner loop of update: one get_cell_state call per column of the row.
RECURSIVE UpdateCols(_, _, _)
UpdateCols(u, row, col) ==
    IF col >= u.width THEN <<>>
    ELSE <<[row |-> row, col |-> col, cell |-> get_cell_state(u, row, col)]>>
         \o UpdateCols(u, row, col + 1)

\* The outer loop of update.
RECURSIVE UpdateRows(_, _)
UpdateRows(u, row) ==
    IF row >= u.height THEN <<>>
    ELSE UpdateCols(u, row, 0) \o UpdateRows(u, row + 1)

\* update: the get_cell_state calls of one draw pass, in order.
update(u) == UpdateRows(u, 0)

\* update panics when one of its reads indexes outside the cells.
UpdatePanics(u, rs) ==
    \E k \in 1..Len(rs) : IndexPanics(u, get_index(u, rs[k].row, rs[k].col))

\* The grid a draw pass has read.
GridRead(u, rs) ==
    [width |-> u.width, height |-> u.height,
     cells |-> [k \in 1..Len(rs) |-> rs[k].cell]]

\* The grid a Universe holds.
GridOf(u) == [width |-> u.width, height |-> u.height, cells |-> u.cells]

\* ---------------------------------------------------------------- inputs

\* Window sizes in pixels whose grid has at most maxDim columns and rows and
\* at most maxCells cells; rems are the pixels left over beside the cells.
Sizes(maxDim, maxCells, rems) ==
    { [width |-> w * SQUARE_SIZE + rw, height |-> h * SQUARE_SIZE + rh] :
        <<w, h, rw, rh>> \in
            { q \in (0..maxDim) \X (0..maxDim) \X rems \X rems :
                q[1] * q[2] <= maxCells } }

UniverseSizes == Sizes(MaxDim, MaxDim * MaxDim, {0})
HostSizes == Sizes(HostMaxDim, HostMaxCells, {SQUARE_SIZE - 1})

\* The random bytes Universe::new draws for a window of this size.
RandomDraws(sz) ==
    [1..((sz.width \div SQUARE_SIZE) * (sz.height \div SQUARE_SIZE)) -> RandomBytes]

\* The cells (as 1-based positions) of the 2x2 blocks of a width x height
\* grid, each alone or with one other cell.
BlockPositions(width, height) ==
    { {r * width + c + 1, r * width + c + 2,
       (r + 1) * width + c + 1, (r + 1) * width + c + 2} \cup X :
        r \in 0..(height - 2), c \in 0..(width - 2),
        X \in {{}} \cup { {i} : i \in 1..(width * height) } }

\* The draws of the Universe specification (see FullCells): every draw for
\* a small grid; for a larger one the draws that are odd on a 2x2 block and
\* on at most one other cell.
BoundedDraws(sz) ==
    IF (sz.width \div SQUARE_SIZE) * (sz.height \div SQUARE_SIZE) <= FullCells
    THEN RandomDraws(sz)
    ELSE { [i \in 1..((sz.width \div SQUARE_SIZE) * (sz.height \div SQUARE_SIZE)) |->
              IF i \in A THEN CHOOSE b \in RandomBytes : b % 2 = 1
                         ELSE CHOOSE b \in RandomBytes : b % 2 = 0] :
           A \in BlockPositions(sz.width \div SQUARE_SIZE, sz.height \div SQUARE_SIZE) }

\* main, up to el.run: the Universe is built from the window's inner size.
Built(sz, u) ==
    /\ universe = u
    /\ inner_size = sz
    /\ control_flow = "Poll"
    /\ event = "Init"
    /\ ticked = FALSE
    /\ pre = u
    /\ probe = NoProbe
    /\ drawn = FALSE
    /\ reads = <<>>
    /\ shown = NoGrid
    /\ panicked = FALSE

\* ----------------------------------------------- the Universe on its own

InitUniverse ==
    \E sz \in UniverseSizes : \E rnd \in BoundedDraws(sz) :
        Built(sz, New(sz.width \div SQUARE_SIZE, sz.height \div SQUARE_SIZE, rnd))

\* One call of universe.tick().
Tick ==
    /\ ~panicked
    /\ \E t \in {tick(universe)} :
          /\ universe' = t.universe
          /\ probe' = t.probe
          /\ panicked' \in {t.panicked, t.panicked \/ t.probe.overflow}
    /\ pre' = universe
    /\ ticked' = TRUE
    /\ UNCHANGED <<inner_size, control_flow, event, drawn, reads, shown>>

NextUniverse == Tick

SpecUniverse == InitUniverse /\ [][NextUniverse]_vars

\* ------------------------------------------------- the event-loop closure

Init ==
    \E sz \in HostSizes : \E rnd \in RandomDraws(sz) :
        Built(sz, New(sz.width \div SQUARE_SIZE, sz.height \div SQUARE_SIZE, rnd))

\* The draw gate and the draw pass: if universe.dirty { update(..) }.
Draw(ev, sz, u1, due, flow, u2, tick_panicked, pr) ==
    /\ event' = ev
    /\ inner_size' = sz
    /\ pre' = u1
    /\ ticked' = due
    /\ probe' = pr
    /\ universe' = u2
    /\ control_flow' = flow
    /\ IF ~tick_panicked /\ u2.dirty
       THEN /\ drawn' = TRUE
            /\ reads' = update(u2)
            /\ shown' = GridRead(u2, reads')
            /\ panicked' = UpdatePanics(u2, reads')
       ELSE /\ drawn' = FALSE
            /\ reads' = <<>>
            /\ shown' = shown
            /\ panicked' = tick_panicked

\* The time gate: if time_diff > 0.1 { universe.tick() }.
TimeGate(ev, sz, u1, due, flow, t) ==
    IF due
    THEN \E p \in {t.panicked, t.panicked \/ t.probe.overflow} :
            Draw(ev, sz, u1, due, flow, t.universe, p, t.probe)
    ELSE Draw(ev, sz, u1, due, flow, u1, FALSE, NoProbe)

\* One call of the closure for an event that reaches the time gate: u1 is
\* the Universe after the event's handler, due is time_diff > 0.1, flow the
\* control flow the handler leaves.
Frame(ev, sz, u1, due, flow) == TimeGate(ev, sz, u1, due, flow, tick(u1))

\* The closure runs for whatever event it is called with, whatever control
\* flow its last call left (line 172 sets Poll again); only a panic, which
\* aborts the process, ends the calls.
Running == ~panicked

\* WindowEvent::Resized: the Universe is rebuilt for the new size.
Resized ==
    /\ Running
    /\ \E sz \in HostSizes : \E rnd \in RandomDraws(sz) : \E due \in BOOLEAN :
         Frame("Resized", sz,
               New(sz.width \div SQUARE_SIZE, sz.height \div SQUARE_SIZE, rnd),
               due, "Poll")

\* WindowEvent::CloseRequested, or the Escape key: control_flow = Exit.
CloseRequested ==
    /\ Running
    /\ \E due \in BOOLEAN :
         Frame("CloseRequested", inner_size, universe, due, "Exit")

\* Every other event (the F key, RedrawRequested, MainEventsCleared, ...).
OtherEvent ==
    /\ Running
    /\ \E due \in BOOLEAN :
         Frame("Other", inner_size, universe, due, "Poll")

\* Event::LoopDestroyed: the closure returns before the time gate.
LoopDestroyed ==
    /\ Running
    /\ event' = "LoopDestroyed"
    /\ control_flow' = "Poll"
    /\ ticked' = FALSE
    /\ pre' = universe
    /\ probe' = NoProbe
    /\ drawn' = FALSE
    /\ reads' = <<>>
    /\ UNCHANGED <<universe, inner_size, shown, panicked>>

Next == Resized \/ CloseRequested \/ OtherEvent \/ LoopDestroyed

Spec == Init /\ [][Next]_vars

\* ---------------------------------------------------------------- claims

\* The coordinates of a grid, and the range test of the specification.
CoordsOf(u) == (0..(u.height - 1)) \X (0..(u.width - 1))
InRange(u, r, c) == 0 <= r /\ r < u.height /\ 0 <= c /\ c < u.width
At(u, r, c) == u.cells[r * u.width + c + 1]

\* The live-neighbour count as the specification states it: the Alive cells
\* among the 8 offsets whose target lies in [0,height) x [0,width).
Compass == ({0 - 1, 0, 1} \X {0 - 1, 0, 1}) \ {<<0, 0>>}
AliveAround(u, r, c) ==
    Cardinality({ d \in Compass :
                    /\ InRange(u, r + d[1], c + d[2])
                    /\ At(u, r + d[1], c + d[2]) = Alive })

\* The transition table of the specification.
RuleTable(cell, n) ==
    IF cell = Alive
    THEN (IF n < 2 THEN Dead ELSE IF n <= 3 THEN Alive ELSE Dead)
    ELSE (IF n = 3 THEN Alive ELSE Dead)

OnCorner(u, r, c) == (r = 0 \/ r = u.height - 1) /\ (c = 0 \/ c = u.width - 1)
OnEdge(u, r, c) == r = 0 \/ r = u.height - 1 \/ c = 0 \/ c = u.width - 1

\* The calls of the closure that reach the draw gate.
IsFrame == event \in {"Resized", "CloseRequested", "Other"}

\* Each cell of the grid is read exactly once by the last draw pass.
EachCellReadOnce ==
    /\ Len(reads) = universe.width * universe.height
    /\ \A rc \in CoordsOf(universe) :
         Cardinality({ k \in 1..Len(reads) :
                         reads[k].row = rc[1] /\ reads[k].col = rc[2] }) = 1

\* C1: after a tick, every cell equals the transition table applied to that
\* cell's state and live-neighbour count in the grid as it was before the
\* tick; no cell depends on a value written during the same tick.
C1_TickAppliesRule ==
    ticked =>
        /\ Len(universe.cells) = Len(pre.cells)
        /\ \A rc \in CoordsOf(pre) :
             At(universe, rc[1], rc[2])
                = RuleTable(At(pre, rc[1], rc[2]), AliveAround(pre, rc[1], rc[2]))

\* A tick in which all four rows of the table that change or keep a live
\* cell were applied, next to one another.
C1_Witness ==
    /\ ticked
    /\ \E a, b, c, d \in CoordsOf(pre) :
         /\ At(pre, a[1], a[2]) = Alive /\ AliveAround(pre, a[1], a[2]) < 2
         /\ At(pre, b[1], b[2]) = Alive /\ AliveAround(pre, b[1], b[2]) > 3
         /\ At(pre, c[1], c[2]) = Dead /\ AliveAround(pre, c[1], c[2]) = 3
         /\ At(pre, d[1], d[2]) = Alive /\ AliveAround(pre, d[1], d[2]) \in {2, 3}
         /\ At(universe, a[1], a[2]) = Dead
         /\ At(universe, b[1], b[2]) = Dead
         /\ At(universe, c[1], c[2]) = Alive
         /\ At(universe, d[1], d[2]) = Alive

\* C2: for every in-range cell, live_neighbors is the number of Alive cells
\* among the offsets that stay inside the grid (no wrap); so a corner counts
\* at most 3, another edge cell at most 5, an interior cell at most 8, and
\* cell (0,0) of a 2x2 grid counts the 3 other cells.
C2_NeighborCount ==
    /\ \A rc \in CoordsOf(pre) :
         \E n \in {live_neighbors(pre, rc[1], rc[2])} :
             /\ n = AliveAround(pre, rc[1], rc[2])
             /\ OnCorner(pre, rc[1], rc[2]) => n <= 3
             /\ OnEdge(pre, rc[1], rc[2]) => n <= 5
             /\ n <= 8
    /\ (pre.width = 2 /\ pre.height = 2) =>
         live_neighbors(pre, 0, 0) = pre.cells[2] + pre.cells[3] + pre.cells[4]

\* A tick of a full 3x3 grid: the corner counted 3, the edge 5, the centre 8.
C2_Witness ==
    /\ ticked
    /\ pre.width = 3 /\ pre.height = 3
    /\ live_neighbors(pre, 0, 0) = 3
    /\ live_neighbors(pre, 0, 1) = 5
    /\ live_neighbors(pre, 1, 1) = 8

\* C3: after a tick, dirty is true exactly when some cell differs from the
\* cell at the same position before the tick, whatever dirty was before.
C3_DirtyIffChanged ==
    ticked => (universe.dirty <=> universe.cells # pre.cells)

\* A tick that changed a cell but not the last cell of the grid.
C3_Witness ==
    /\ ticked
    /\ universe.dirty
    /\ Len(pre.cells) > 1
    /\ universe.cells[Len(pre.cells)] = pre.cells[Len(pre.cells)]
    /\ universe.cells # pre.cells

\* C4: the cells always number width*height; a tick keeps width and height;
\* construction and reconstruction give a grid of the size asked for, with
\* that many cells and dirty set.
C4_LengthInvariant ==
    /\ Len(universe.cells) = universe.width * universe.height
    /\ Len(pre.cells) = pre.width * pre.height
    /\ ticked => (universe.width = pre.width /\ universe.height = pre.height)
    /\ event \in {"Init", "Resized"} =>
         /\ pre.width = inner_size.width \div SQUARE_SIZE
         /\ pre.height = inner_size.height \div SQUARE_SIZE
         /\ pre.dirty

\* A reconstruction to 2x1 followed, in the same call, by a tick.
C4_Witness ==
    /\ event = "Resized"
    /\ ticked
    /\ pre.width = 2 /\ pre.height = 1
    /\ Len(universe.cells) = 2

\* C5: on a grid with width >= 1 and height >= 1 a tick cannot fail: every
\* coordinate live_neighbors dereferences is in range, no subtraction
\* overflows, and every index used is below width*height.
C5_TickInBounds ==
    (ticked /\ pre.width >= 1 /\ pre.height >= 1) =>
        /\ ~panicked
        /\ ~probe.overflow
        /\ \A t \in probe.coords : InRange(pre, t[1], t[2])
        /\ \A i \in probe.indices : 0 <= i /\ i < pre.width * pre.height

\* A tick of a grid one column wide and several rows high, whose cells are
\* on the first and the last column at once.
C5_Witness ==
    /\ ticked
    /\ pre.width = 1 /\ pre.height > 2
    /\ probe.coords # {}
    /\ probe.subs

\* The only Alive cells form a 2x2 block that touches no boundary.
IsInteriorBlock(u) ==
    \E r \in 1..(u.height - 3) : \E c \in 1..(u.width - 3) :
        \A rc \in CoordsOf(u) :
            At(u, rc[1], rc[2]) = Alive <=> (rc[1] \in {r, r + 1} /\ rc[2] \in {c, c + 1})

\* C6: a tick of a grid whose only Alive cells form a 2x2 block away from
\* the boundary leaves every cell unchanged and dirty false.
C6_BlockStillLife ==
    (ticked /\ IsInteriorBlock(pre)) =>
        (universe.cells = pre.cells /\ ~universe.dirty)

C6_Witness == ticked /\ IsInteriorBlock(pre) /\ pre.dirty

\* C7 as stated: on every frame each cell of the grid is read once, whatever
\* dirty is.
C7_ReadsEveryFrame == (IsFrame /\ ~panicked) => EachCellReadOnce

\* C7 amended: a frame runs the draw pass exactly when dirty is true at the
\* draw gate; the pass reads each cell once, and a frame without it reads none.
C7_ReadsWhenDirty ==
    (IsFrame /\ ~panicked) =>
        /\ drawn <=> universe.dirty
        /\ drawn => EachCellReadOnce
        /\ ~drawn => reads = <<>>

\* A frame that ticked a 2x2 grid and drew it.
C7_Witness ==
    /\ IsFrame /\ ticked /\ drawn
    /\ universe.width = 2 /\ universe.height = 2
    /\ Len(reads) = 4

\* C8: a frame skips the draw pass only when the grid is the one the most
\* recent draw pass read, and such a pass exists.
C8_SkipOnlyWhenRedundant ==
    (IsFrame /\ ~drawn) => (shown # NoGrid /\ shown = GridOf(universe))

\* C9: once a tick has left dirty false, every later tick of the same grid
\* keeps the cells and keeps dirty false; while dirty is true after a tick
\* the grid differs from its predecessor; dirty goes from false to true
\* only in a call that rebuilds the Universe.
C9_StabilityAbsorbing ==
    /\ [](ticked =>
            /\ ~pre.dirty => (universe.cells = pre.cells /\ ~universe.dirty)
            /\ universe.dirty => universe.cells # pre.cells)
    /\ [][(~universe.dirty /\ universe'.dirty) => event' = "Resized"]_vars

\* A tick of a grid that an earlier tick had found stable, with a live cell.
C9_Witness ==
    /\ event = "Other"
    /\ ticked
    /\ ~pre.dirty
    /\ \E i \in 1..Len(universe.cells) : universe.cells[i] = Alive

Degenerate(u) == u.width = 0 \/ u.height = 0

\* C10: a window smaller than one cell in either direction gives a grid of
\* width 0 or height 0; such a grid is built with no cells and dirty true,
\* and a tick of it completes without computing height - 1 or width - 1 or
\* indexing a cell, keeps the cells empty and sets dirty false.
C10_DegenerateDimensions ==
    /\ (event \in {"Init", "Resized"}
          /\ (inner_size.width < SQUARE_SIZE \/ inner_size.height < SQUARE_SIZE))
         => Degenerate(pre)
    /\ Degenerate(pre) =>
         /\ pre.cells = <<>>
         /\ event \in {"Init", "Resized"} => pre.dirty
         /\ ticked =>
              /\ ~panicked
              /\ universe.cells = <<>>
              /\ ~universe.dirty
              /\ ~probe.subs
              /\ probe.coords = {}
              /\ probe.indices = {}

\* A window two cells high and less than a cell wide, rebuilt and ticked.
C10_Witness ==
    /\ event = "Resized"
    /\ ticked
    /\ inner_size.width < SQUARE_SIZE
    /\ inner_size.height >= 2 * SQUARE_SIZE
    /\ pre.dirty
    /\ ~universe.dirty

====
